---- MODULE Spec2Model ----
(***************************************************************************)
(* Model of getLearnerData (src/script.js).  The file declares the         *)
(* function twice (lines 8-116 and 223-339) with the same body; the later  *)
(* declaration is the one in effect and is the one line numbers refer to.  *)
(*                                                                         *)
(* JavaScript values are tagged records [t |-> typeof-like tag, ...].      *)
(* JavaScript numbers that take part in arithmetic are exact rationals     *)
(* <<numerator, denominator>> in lowest terms; floating point rounding,    *)
(* NaN inputs and Invalid Date inputs are outside the model.               *)
(* Dates are integers (milliseconds since the epoch in the source).        *)
(***************************************************************************)
EXTENDS Integers, Sequences, FiniteSets

VARIABLES courseInfo, assignmentGroup, learnerSubmissions,
          pc, currentDate, assignmentMap, learnerData, iter,
          results, warnings, errorLog, thrown

vars == <<courseInfo, assignmentGroup, learnerSubmissions,
          pc, currentDate, assignmentMap, learnerData, iter,
          results, warnings, errorLog, thrown>>

\* Longest submission array the model iterates over.
MaxSubs == 3

\* The late penalty is 0.1 of points_possible: LatePenaltyNum / LatePenaltyDen.
LatePenaltyNum == 1
LatePenaltyDen == 10

-----------------------------------------------------------------------------
\* Exact arithmetic on JavaScript numbers.

Abs(x) == IF x < 0 THEN -x ELSE x

RECURSIVE GCD(_, _)
GCD(a, b) == IF b = 0 THEN a ELSE GCD(b, a % b)

\* The number n/d in lowest terms.  Division by zero gives <<1, 0>>
\* (Infinity), <<-1, 0>> (-Infinity) or <<0, 0>> (NaN), as in JavaScript.
Rat(n, d) ==
    LET g == GCD(Abs(n), Abs(d))
        s == IF d < 0 THEN -1 ELSE 1
    IN  IF g = 0 THEN <<0, 0>> ELSE <<(s * n) \div g, (s * d) \div g>>

Zero == <<0, 1>>
FromInt(n) == <<n, 1>>
Plus(a, b) == Rat(a[1] * b[2] + b[1] * a[2], a[2] * b[2])
Minus(a, b) == Rat(a[1] * b[2] - b[1] * a[2], a[2] * b[2])
Times(a, b) == Rat(a[1] * b[1], a[2] * b[2])
Divide(a, b) == Rat(a[1] * b[2], a[2] * b[1])
Greater(a, b) == a[1] * b[2] > b[1] * a[2]
MathMax(a, b) == IF Greater(b, a) THEN b ELSE a

-----------------------------------------------------------------------------
\* JavaScript values.

Num(n) == [t |-> "number", v |-> n]
Str == [t |-> "string", v |-> 0]
Undefined == [t |-> "undefined", v |-> 0]

\* typeof x === 'object' (true of null as well as of objects)
TypeofIsObject(x) == x.t \in {"object", "null"}

\* Array.isArray(x)
IsArray(x) == x.t = "array"

\* Reading a property of x throws a TypeError
PropertyReadThrows(x) == x.t \in {"null", "undefined"}

\* The truth value of x in a condition: !x is ~Truthy(x)
Truthy(x) ==
    CASE x.t = "number" -> x.v # 0
      [] x.t = "object" -> TRUE
      [] OTHER -> FALSE

-----------------------------------------------------------------------------
\* Inputs.

CourseInputs ==
    {[t |-> "object", id |-> Num(1)], [t |-> "object", id |-> Num(2)]}
    \cup {[t |-> k, id |-> Undefined] : k \in {"null", "number", "string", "undefined"}}

Assignment(id, due, pp) == [id |-> Num(id), due_at |-> due, points_possible |-> pp]

AssignmentLists ==
    {<<Assignment(1, 3, p1), Assignment(2, d2, p2)>> :
        p1 \in {Num(10)}, d2 \in {3, 8}, p2 \in {Num(20), Num(0)}}
    \cup {<<Assignment(1, 3, p1), Assignment(2, 3, p2)>> :
        p1 \in {Num(10), Undefined, Num(-10)}, p2 \in {Str, Undefined, Num(-20)}}
    \cup {<<Assignment(1, 3, p1), Assignment(2, 3, Num(20))>> :
        p1 \in {Str, Undefined, Num(-10)}}

GroupInputs ==
    {[t |-> "object", course_id |-> Num(1), assignments |-> as] : as \in AssignmentLists}
    \cup {[t |-> k, course_id |-> Undefined, assignments |-> <<>>] :
            k \in {"null", "number", "string", "undefined"}}

Attempt(at, score) == [t |-> "object", submitted_at |-> at, score |-> score]
NoAttempt == [t |-> "undefined", submitted_at |-> 0, score |-> 0]

Submission(l, a, s) == [learner_id |-> l, assignment_id |-> a, submission |-> s]

WellFormedInputs ==
    {Submission(Num(101), Num(1), Attempt(at, sc)) : at \in {3, 4}, sc \in {-5, 0, 5}}
    \cup {Submission(Num(101), Num(2), Attempt(at, sc)) : at \in {3, 4}, sc \in {0, 5}}
    \cup {Submission(Num(102), Num(1), Attempt(3, 5)),
          Submission(Num(102), Num(2), Attempt(4, 0)),
          Submission(Num(101), Num(3), Attempt(3, 5))}

MalformedInputs ==
    {Submission(Num(0), Num(1), Attempt(3, 5)),
     Submission(Num(102), Undefined, Attempt(3, 5)),
     Submission(Num(101), Num(1), NoAttempt)}

SubmissionInputs == WellFormedInputs \cup MalformedInputs

\* The values new Date() may give.
Clock == {5}

-----------------------------------------------------------------------------
\* The body of the submission loop.

\* Variant: the test for the submission field is left out.
IsMalformed_NoSubmissionTest(sub) ==
    \/ ~Truthy(sub.learner_id)
    \/ ~Truthy(sub.assignment_id)

\* !submission.learner_id || !submission.assignment_id || !submission.submission
IsMalformed(sub) ==
    \/ ~Truthy(sub.learner_id)
    \/ ~Truthy(sub.assignment_id)
    \/ ~Truthy(sub.submission)

\* learnerData.has(learnerId)
HasLearner(ld, id) == \E i \in 1..Len(ld) : ld[i].id = id

IndexOf(ld, id) == CHOOSE i \in 1..Len(ld) : ld[i].id = id

\* learnerData.get(learnerId)
GetLearner(ld, id) == ld[IndexOf(ld, id)]

\* Variant: a new learner is put first instead of last.
InitLearner_Prepend(ld, id) ==
    IF HasLearner(ld, id) THEN ld
    ELSE <<[id |-> id, totalScore |-> Zero, totalPossible |-> Zero,
            assignmentScores |-> <<>>]>> \o ld

\* if (!learnerData.has(learnerId)) learnerData.set(learnerId, {...})
InitLearner(ld, id) ==
    IF HasLearner(ld, id) THEN ld
    ELSE Append(ld, [id |-> id, totalScore |-> Zero, totalPossible |-> Zero,
                     assignmentScores |-> <<>>])

\* Variant: the due-date comparison is reversed.
NotYetDue_Reversed(assignment, now) == assignment.due_at < now

\* dueDate > currentDate
NotYetDue(assignment, now) == assignment.due_at > now

\* submittedDate > dueDate
IsLate(sub, assignment) == sub.submission.submitted_at > assignment.due_at

\* 0.1 * assignment.points_possible
Penalty(pp) == Times(Rat(LatePenaltyNum, LatePenaltyDen), pp)

\* Variant: the penalty is a tenth of the raw score.
EffectiveScore_PenaltyOfRaw(raw, pp, late) ==
    IF late THEN MathMax(Zero, Minus(raw, Penalty(raw))) ELSE raw

\* score after the late-penalty branch
EffectiveScore(raw, pp, late) ==
    IF late THEN MathMax(Zero, Minus(raw, Penalty(pp))) ELSE raw

\* Variant: no division guard.
ZeroPoints_NoGuard(assignment) == FALSE

\* assignment.points_possible === 0
ZeroPoints(assignment) == assignment.points_possible.v = 0

\* !learner.assignmentScores[assignmentId]
NoRecordedScore(learner, a) ==
    \/ a \notin DOMAIN learner.assignmentScores
    \/ learner.assignmentScores[a] = Zero

\* the condition under which the submission replaces what is recorded
KeepsSubmission(learner, a, percentage) ==
    \/ NoRecordedScore(learner, a)
    \/ Greater(percentage, learner.assignmentScores[a])

\* the body of that branch: the learner's record after the update
RecordScore(learner, a, pp, score, percentage) ==
    LET replacing == ~NoRecordedScore(learner, a)
        ts == IF replacing
              THEN Minus(learner.totalScore, Times(learner.assignmentScores[a], pp))
              ELSE learner.totalScore
        tp == IF replacing THEN Minus(learner.totalPossible, pp)
              ELSE learner.totalPossible
    IN  [id |-> learner.id,
         totalScore |-> Plus(ts, score),
         totalPossible |-> Plus(tp, pp),
         assignmentScores |->
            [x \in DOMAIN learner.assignmentScores \cup {a} |->
                IF x = a THEN percentage ELSE learner.assignmentScores[x]]]

Skipped(outcome) == [outcome |-> outcome, score |-> Zero, percentage |-> Zero]

\* One iteration: the accumulator after it, whether it warned, and the
\* iteration's locals.
LoopBody(ld, amap, now, sub) ==
    IF IsMalformed(sub)
    THEN [ld |-> ld, warned |-> TRUE, it |-> Skipped("malformed")]
    ELSE
      LET learnerId == sub.learner_id
          assignmentId == sub.assignment_id
          ld1 == InitLearner(ld, learnerId)
          learner == GetLearner(ld1, learnerId)
      IN  IF assignmentId \notin DOMAIN amap
          THEN [ld |-> ld1, warned |-> FALSE, it |-> Skipped("unknown")]
          ELSE
            LET assignment == amap[assignmentId]
                pp == FromInt(assignment.points_possible.v)
            IN  IF NotYetDue(assignment, now)
                THEN [ld |-> ld1, warned |-> FALSE, it |-> Skipped("notDue")]
                ELSE IF ZeroPoints(assignment)
                THEN [ld |-> ld1, warned |-> FALSE, it |-> Skipped("zeroPoints")]
                ELSE
                  LET score == EffectiveScore(FromInt(sub.submission.score), pp,
                                              IsLate(sub, assignment))
                      percentage == Divide(score, pp)
                  IN  IF KeepsSubmission(learner, assignmentId, percentage)
                      THEN [ld |-> [ld1 EXCEPT ![IndexOf(ld1, learnerId)] =
                                      RecordScore(learner, assignmentId, pp, score, percentage)],
                            warned |-> FALSE,
                            it |-> [outcome |-> "recorded", score |-> score,
                                    percentage |-> percentage]]
                      ELSE [ld |-> ld1, warned |-> FALSE,
                            it |-> [outcome |-> "discarded", score |-> score,
                                    percentage |-> percentage]]

\* The output loop: one record per learner with totalPossible # 0, in
\* the accumulator's insertion order.
RECURSIVE BuildResults(_)
BuildResults(ld) ==
    IF ld = <<>> THEN <<>>
    ELSE LET data == Head(ld)
             rest == BuildResults(Tail(ld))
         IN  IF data.totalPossible = Zero THEN rest
             ELSE <<[id |-> data.id,
                     avg |-> Divide(data.totalScore, data.totalPossible),
                     scores |-> data.assignmentScores]>> \o rest

\* The accumulator after the loop has run over subs, starting from ld.
RECURSIVE RunLoop(_, _, _, _)
RunLoop(ld, amap, now, subs) ==
    IF subs = <<>> THEN ld
    ELSE RunLoop(LoopBody(ld, amap, now, Head(subs)).ld, amap, now, Tail(subs))

\* What the call returns for the array subs, once the assignments are indexed.
ResultsFor(amap, now, subs) == BuildResults(RunLoop(<<>>, amap, now, subs))

-----------------------------------------------------------------------------
\* Validation.

\* Variant: the sign of points_possible is not tested.
InvalidPoints_NoSignTest(assignment) == assignment.points_possible.t # "number"

\* typeof points_possible !== 'number' || points_possible < 0
InvalidPoints(assignment) ==
    \/ assignment.points_possible.t # "number"
    \/ assignment.points_possible.v < 0

\* the type test that opens the function
InvalidInputTypes(course, group, subs) ==
    \/ ~TypeofIsObject(course)
    \/ ~TypeofIsObject(group)
    \/ ~IsArray(subs)

NoError == [name |-> "none", message |-> "", id |-> Undefined]
Error(msg) == [name |-> "Error", message |-> msg, id |-> Undefined]
TypeError == [name |-> "TypeError", message |-> "Cannot read properties", id |-> Undefined]

-----------------------------------------------------------------------------
Init ==
    /\ courseInfo \in CourseInputs
    /\ assignmentGroup \in GroupInputs
    /\ learnerSubmissions \in
         {[t |-> "array", items |-> <<>>], [t |-> "object", items |-> <<>>],
          [t |-> "undefined", items |-> <<>>]}
    /\ pc = "start"
    /\ currentDate = 0
    /\ assignmentMap = <<>>
    /\ learnerData = <<>>
    /\ iter = Skipped("none")
    /\ results = <<>>
    /\ warnings = 0
    /\ errorLog = 0
    /\ thrown = NoError

\* lines 226-230
ValidateTypes ==
    /\ pc = "start"
    /\ IF InvalidInputTypes(courseInfo, assignmentGroup, learnerSubmissions)
       THEN /\ thrown' = Error("Invalid input data types")
            /\ pc' = "thrown"
       ELSE /\ pc' = "try"
            /\ UNCHANGED thrown
    /\ UNCHANGED <<courseInfo, assignmentGroup, learnerSubmissions, currentDate,
                   assignmentMap, learnerData, iter, results, warnings, errorLog>>

\* lines 235-240, with the catch block of lines 334-338
CheckCourse ==
    /\ pc = "try"
    /\ IF PropertyReadThrows(assignmentGroup) \/ PropertyReadThrows(courseInfo)
       THEN /\ thrown' = TypeError
            /\ errorLog' = errorLog + 1
            /\ pc' = "thrown"
            /\ UNCHANGED currentDate
       ELSE IF assignmentGroup.course_id # courseInfo.id
       THEN /\ thrown' = Error("Invalid input: AssignmentGroup does not belong to the specified course.")
            /\ errorLog' = errorLog + 1
            /\ pc' = "thrown"
            /\ UNCHANGED currentDate
       ELSE /\ currentDate' \in Clock
            /\ pc' = "index"
            /\ UNCHANGED <<thrown, errorLog>>
    /\ UNCHANGED <<courseInfo, assignmentGroup, learnerSubmissions,
                   assignmentMap, learnerData, iter, results, warnings>>

\* The assignments indexed before position n (later entries replace earlier
\* ones with the same id).
MapOf(as, n) ==
    LET ids == {as[i].id : i \in 1..n}
    IN  [x \in ids |-> as[CHOOSE i \in 1..n :
                            /\ as[i].id = x
                            /\ \A j \in 1..n : as[j].id = x => j <= i]]

\* lines 244-252, with the catch block of lines 334-338
IndexAssignments ==
    /\ pc = "index"
    /\ LET as == assignmentGroup.assignments
           bad == {i \in 1..Len(as) : InvalidPoints(as[i])}
       IN  IF bad # {}
           THEN LET first == CHOOSE i \in bad : \A j \in bad : i <= j
                IN  /\ assignmentMap' = MapOf(as, first - 1)
                    /\ thrown' = [name |-> "Error",
                                  message |-> "Invalid points_possible for assignment",
                                  id |-> as[first].id]
                    /\ errorLog' = errorLog + 1
                    /\ pc' = "thrown"
           ELSE /\ assignmentMap' = MapOf(as, Len(as))
                /\ pc' = "loop"
                /\ UNCHANGED <<thrown, errorLog>>
    /\ UNCHANGED <<courseInfo, assignmentGroup, learnerSubmissions, currentDate,
                   learnerData, iter, results, warnings>>

\* lines 259-318: one iteration of the submission loop.  items holds the
\* elements the iterator has yielded so far.
ProcessSubmission ==
    /\ pc = "loop"
    /\ Len(learnerSubmissions.items) < MaxSubs
    /\ \E sub \in SubmissionInputs :
         LET r == LoopBody(learnerData, assignmentMap, currentDate, sub)
         IN  /\ learnerSubmissions' =
                   [learnerSubmissions EXCEPT !.items = Append(@, sub)]
             /\ learnerData' = r.ld
             /\ warnings' = IF r.warned THEN warnings + 1 ELSE warnings
             /\ iter' = r.it
    /\ UNCHANGED <<courseInfo, assignmentGroup, pc, currentDate, assignmentMap,
                   results, errorLog, thrown>>

\* lines 321-333: the array is exhausted; build and return the results.
ReturnResults ==
    /\ pc = "loop"
    /\ results' = BuildResults(learnerData)
    /\ pc' = "returned"
    /\ UNCHANGED <<courseInfo, assignmentGroup, learnerSubmissions, currentDate,
                   assignmentMap, learnerData, iter, warnings, errorLog, thrown>>

Next ==
    \/ ValidateTypes
    \/ CheckCourse
    \/ IndexAssignments
    \/ ProcessSubmission
    \/ ReturnResults

Spec == Init /\ [][Next]_vars

-----------------------------------------------------------------------------
\* Vocabulary of the properties, stated from the inputs.

Items == learnerSubmissions.items
Assignments == assignmentGroup.assignments
Running == pc \in {"loop", "returned"}
Returned == pc = "returned"

Max(a, b) == IF a > b THEN a ELSE b

\* learner_id, assignment_id and submission are all present and truthy
StructurallyValid(sub) ==
    /\ sub.learner_id.t = "number" /\ sub.learner_id.v # 0
    /\ sub.assignment_id.t = "number" /\ sub.assignment_id.v # 0
    /\ sub.submission.t = "object"

KnownIds == {Assignments[i].id : i \in 1..Len(Assignments)}
TheAssignment(a) == Assignments[CHOOSE i \in 1..Len(Assignments) : Assignments[i].id = a]
FutureIds == {a \in KnownIds : TheAssignment(a).due_at > currentDate}
ZeroIds == {a \in KnownIds : TheAssignment(a).points_possible.v = 0}

\* A countable submission: well formed, known assignment, already due,
\* points_possible > 0.
Countable(sub) ==
    /\ StructurallyValid(sub)
    /\ sub.assignment_id \in KnownIds
    /\ TheAssignment(sub.assignment_id).due_at <= currentDate
    /\ TheAssignment(sub.assignment_id).points_possible.v > 0

\* Ten times the penalty-applied score of a countable submission:
\* max(0, raw - 0.1 * points_possible) when late, raw otherwise.
ScoreTenths(sub) ==
    LET asg == TheAssignment(sub.assignment_id)
    IN  IF sub.submission.submitted_at > asg.due_at
        THEN Max(0, 10 * sub.submission.score - asg.points_possible.v)
        ELSE 10 * sub.submission.score

PointsOf(a) == TheAssignment(a).points_possible.v

\* The positions of learner l's countable submissions for assignment a.
CountableAt(l, a) ==
    {k \in 1..Len(Items) :
        /\ Countable(Items[k])
        /\ Items[k].learner_id = l
        /\ Items[k].assignment_id = a}

\* Ten times the best penalty-applied score among them.
BestTenths(l, a) ==
    LET K == CountableAt(l, a)
    IN  ScoreTenths(Items[CHOOSE k \in K :
                            \A j \in K : ScoreTenths(Items[j]) <= ScoreTenths(Items[k])])

ScoredIds(l) == {a \in KnownIds : CountableAt(l, a) # {}}

RECURSIVE SumBestTenths(_, _)
SumBestTenths(l, S) ==
    IF S = {} THEN 0
    ELSE LET a == CHOOSE x \in S : TRUE
         IN  BestTenths(l, a) + SumBestTenths(l, S \ {a})

RECURSIVE SumPoints(_)
SumPoints(S) ==
    IF S = {} THEN 0
    ELSE LET a == CHOOSE x \in S : TRUE
         IN  PointsOf(a) + SumPoints(S \ {a})

LearnerIds == {Items[k].learner_id : k \in {j \in 1..Len(Items) : StructurallyValid(Items[j])}}
RecordsOf(l) == {i \in 1..Len(results) : results[i].id = l}
SetOf(seq) == {seq[i] : i \in 1..Len(seq)}
LastItem == Items[Len(Items)]

-----------------------------------------------------------------------------
\* C1: when the call has returned, every output record's avg is the sum of
\* the best penalty-applied score per scored assignment of that learner
\* divided by the sum of points_possible over those assignments, each
\* counted once.
C1_AvgCountsEachPairOnce ==
    Returned =>
        \A i \in 1..Len(results) :
            LET l == results[i].id
            IN  results[i].avg =
                    Rat(SumBestTenths(l, ScoredIds(l)), 10 * SumPoints(ScoredIds(l)))

\* C2: when the call has returned, for every learner and assignment with
\* at least one countable submission the learner's output record holds, for
\* that assignment, the maximum of the penalty-applied percentages.
C2_RecordedIsMaximum ==
    Returned =>
        \A l \in LearnerIds : \A a \in ScoredIds(l) :
            /\ RecordsOf(l) # {}
            /\ \A i \in RecordsOf(l) :
                  /\ a \in DOMAIN results[i].scores
                  /\ results[i].scores[a] = Rat(BestTenths(l, a), 10 * PointsOf(a))

\* C3: the score an iteration computes for a counted submission is
\* max(0, raw - 0.1 * points_possible) when submitted_at is strictly after
\* due_at and the raw score otherwise; a late score is never negative.
C3_LatePenalty ==
    (pc = "loop" /\ iter.outcome \in {"recorded", "discarded"}) =>
        LET sub == LastItem
            asg == TheAssignment(sub.assignment_id)
            raw == sub.submission.score
            pp == asg.points_possible.v
        IN  /\ sub.submission.submitted_at > asg.due_at =>
                /\ iter.score = Rat(Max(0, 10 * raw - pp), 10)
                /\ iter.score[1] >= 0
            /\ sub.submission.submitted_at <= asg.due_at =>
                iter.score = <<raw, 1>>

C3_Witness ==
    /\ pc = "loop"
    /\ iter.outcome = "recorded"
    /\ LastItem.submission.submitted_at > TheAssignment(LastItem.assignment_id).due_at
    /\ 10 * LastItem.submission.score < PointsOf(LastItem.assignment_id)
    /\ iter.score = Zero

\* C4: with well-typed arguments, a course mismatch or an assignment whose
\* points_possible is missing, non-numeric or negative is fatal before any
\* submission is read: the loop is never entered, no warning is emitted,
\* nothing is returned, and the error names an offending assignment.
C4_FatalBeforeSubmissions ==
    LET typed == courseInfo.t = "object" /\ assignmentGroup.t = "object"
                 /\ learnerSubmissions.t = "array"
        mismatch == assignmentGroup.course_id # courseInfo.id
        offending == {i \in 1..Len(Assignments) :
                        \/ Assignments[i].points_possible.t # "number"
                        \/ Assignments[i].points_possible.v < 0}
    IN  (typed /\ (mismatch \/ offending # {})) =>
            /\ pc \in {"start", "try", "index", "thrown"}
            /\ Items = <<>>
            /\ warnings = 0
            /\ results = <<>>
            /\ pc = "thrown" =>
                 IF mismatch
                 THEN thrown.message =
                        "Invalid input: AssignmentGroup does not belong to the specified course."
                 ELSE /\ thrown.message = "Invalid points_possible for assignment"
                      /\ thrown.id \in {Assignments[i].id : i \in offending}

C4_Witness ==
    /\ pc = "thrown"
    /\ thrown.message = "Invalid points_possible for assignment"
    /\ thrown.id = Num(2)
    /\ Assignments[1].points_possible = Num(10)

\* C5: whenever course or assignmentGroup is not a structured record, or
\* submissions is not an array, the call fails with 'Invalid input data
\* types' and does so before any other check.
C5_InvalidInputType ==
    (\/ courseInfo.t # "object"
     \/ assignmentGroup.t # "object"
     \/ learnerSubmissions.t # "array") =>
        /\ pc \in {"start", "thrown"}
        /\ pc = "thrown" => thrown.message = "Invalid input data types"
        /\ errorLog = 0

-----------------------------------------------------------------------------
WellFormedItems == SelectSeq(Items, StructurallyValid)
IsNotWellFormed(sub) == ~StructurallyValid(sub)

\* C6: a malformed submission gives exactly one warning and changes no
\* accumulator: at every point of the loop the accumulator is the one the
\* well-formed submissions alone produce, and the value returned is the
\* value returned for the array with the malformed submissions removed.
C6_MalformedSkipped ==
    Running =>
        /\ warnings = Len(SelectSeq(Items, IsNotWellFormed))
        /\ learnerData = RunLoop(<<>>, assignmentMap, currentDate, WellFormedItems)
        /\ Returned => results = ResultsFor(assignmentMap, currentDate, WellFormedItems)

C6_Witness ==
    /\ Returned
    /\ Len(Items) = 3
    /\ ~StructurallyValid(Items[2])
    /\ Countable(Items[1])
    /\ Countable(Items[3])
    /\ warnings = 1
    /\ results # <<>>

FirstAt(l) == CHOOSE k \in 1..Len(Items) :
    /\ Items[k].learner_id = l
    /\ \A j \in 1..(k - 1) : Items[j].learner_id # l

FirstWellFormedAt(l) == CHOOSE k \in 1..Len(Items) :
    /\ StructurallyValid(Items[k]) /\ Items[k].learner_id = l
    /\ \A j \in 1..(k - 1) : ~(StructurallyValid(Items[j]) /\ Items[j].learner_id = l)

\* C7 as stated: output records are ordered by the first position at which
\* their learner_id occurs in the submissions, skipped submissions included.
C7_OrderByFirstAppearance ==
    Returned =>
        \A i, j \in 1..Len(results) :
            i < j => FirstAt(results[i].id) < FirstAt(results[j].id)

\* C7 amended: output records are ordered by the first position at which
\* their learner_id occurs in a well-formed submission.
C7_OrderByFirstWellFormed ==
    Returned =>
        \A i, j \in 1..Len(results) :
            i < j => FirstWellFormedAt(results[i].id) < FirstWellFormedAt(results[j].id)

C7_Witness ==
    /\ Returned
    /\ Len(results) = 2
    /\ ~StructurallyValid(Items[1])
    /\ Items[1].learner_id = results[2].id

NotForFuture(sub) == sub.assignment_id \notin FutureIds
NotForZero(sub) == sub.assignment_id \notin ZeroIds

\* The learners all of whose well-formed submissions are for assignments in S.
OnlyFor(S) ==
    {l \in LearnerIds :
        \A k \in 1..Len(Items) :
            (StructurallyValid(Items[k]) /\ Items[k].learner_id = l)
                => Items[k].assignment_id \in S}

\* C8: an assignment due after the current time is in no learner's
\* assignmentScores and in no output record, the output records are those
\* of the same call without the submissions for such assignments, and a
\* learner with submissions for such assignments only is not in the output.
C8_NotYetDueExcluded ==
    Running =>
        /\ \A a \in FutureIds :
              /\ \A i \in 1..Len(learnerData) : a \notin DOMAIN learnerData[i].assignmentScores
              /\ \A i \in 1..Len(results) : a \notin DOMAIN results[i].scores
        /\ Returned =>
              /\ SetOf(results) =
                   SetOf(ResultsFor(assignmentMap, currentDate, SelectSeq(Items, NotForFuture)))
              /\ \A l \in OnlyFor(FutureIds) : RecordsOf(l) = {}

C8_Witness ==
    /\ Returned
    /\ results # <<>>
    /\ OnlyFor(FutureIds) # {}
    /\ \E k \in 1..Len(Items) :
          /\ StructurallyValid(Items[k])
          /\ Items[k].assignment_id \in FutureIds
          /\ RecordsOf(Items[k].learner_id) # {}

\* C9: an assignment with points_possible = 0 is in no learner's
\* assignmentScores and in no output record, and totals and output are those
\* of the same call without the submissions for such assignments.
C9_ZeroPointsExcluded ==
    Running =>
        /\ \A a \in ZeroIds :
              /\ \A i \in 1..Len(learnerData) : a \notin DOMAIN learnerData[i].assignmentScores
              /\ \A i \in 1..Len(results) : a \notin DOMAIN results[i].scores
        /\ LET without == RunLoop(<<>>, assignmentMap, currentDate, SelectSeq(Items, NotForZero))
           IN  \A i \in 1..Len(learnerData) :
                  \/ /\ learnerData[i].totalScore = Zero
                     /\ learnerData[i].totalPossible = Zero
                     /\ ~HasLearner(without, learnerData[i].id)
                  \/ /\ HasLearner(without, learnerData[i].id)
                     /\ GetLearner(without, learnerData[i].id) = learnerData[i]
        /\ Returned =>
              SetOf(results) =
                 SetOf(ResultsFor(assignmentMap, currentDate, SelectSeq(Items, NotForZero)))

C9_Witness ==
    /\ Returned
    /\ results # <<>>
    /\ OnlyFor(ZeroIds) # {}
    /\ \E k \in 1..Len(Items) :
          /\ StructurallyValid(Items[k])
          /\ Items[k].assignment_id \in ZeroIds
          /\ Items[k].submission.score # 0
          /\ RecordsOf(Items[k].learner_id) # {}

\* C10: an iteration whose submission is countable, whose learner already
\* has a recorded percentage for the assignment, and whose percentage is
\* less than or equal to the recorded one leaves the accumulator unchanged.
C10_NotBetterIsDiscarded ==
    [][(pc = "loop" /\ pc' = "loop" /\ learnerSubmissions' # learnerSubmissions) =>
         LET sub == learnerSubmissions'.items[Len(learnerSubmissions'.items)]
             l == sub.learner_id
             a == sub.assignment_id
         IN  (/\ Countable(sub)
              /\ HasLearner(learnerData, l)
              /\ a \in DOMAIN GetLearner(learnerData, l).assignmentScores
              /\ ~Greater(Rat(ScoreTenths(sub), 10 * PointsOf(a)),
                          GetLearner(learnerData, l).assignmentScores[a]))
             => learnerData' = learnerData]_vars

====
